---- MODULE Spec2Model ----
(***************************************************************************)
(* Model of the RD200M radon sensor driver (src/rd200m.py): the command    *)
(* encoder (_send_cmd), the foreground operations of a session (open,      *)
(* reset, force_read, start_reception, close) and the background reception *)
(* thread (__receive_thread_worker, _process_measurement_data).            *)
(*                                                                         *)
(* Bytes are integers 0..255 and frames are sequences of bytes.  Python    *)
(* integers are unbounded: the driver's checksum arithmetic is modelled    *)
(* without wrap-around, exactly as written, and a value outside 0..255     *)
(* put into a bytearray is the ValueError Python raises.                   *)
(***************************************************************************)
EXTENDS Integers, Sequences, FiniteSets, TLC

VARIABLES
    is_open,        \* self.__serial.is_open
    running,        \* self._running
    callback,       \* self._callback ("None" or the name of a sink)
    period,         \* self.period
    receive_thread, \* self.__receive_thread: 0 (None) or a thread id
    thr,            \* the threads ever created: position, locals
    fg,             \* the foreground caller: position, last call and its result
    written,        \* frames the foreground's last call wrote to the port
    nread,          \* number of reads the serial channel has answered with data
    sinkLog,        \* invocations of the sink, in order
    probe           \* input and result of a pure function under test

vars == <<is_open, running, callback, period, receive_thread, thr, fg,
          written, nread, sinkLog, probe>>

(***************************************************************************)
(* Bounds of the model.                                                    *)
(***************************************************************************)
MaxThreads == 1     \* Spec: threads start_reception creates in a behaviour
MaxReads == 2       \* Spec: reads the channel answers with data
LiveReads == 1      \* FairSpec: reads the channel answers with data
MultiThreads == 2   \* SpecMulti, SpecCmd: threads start_reception creates
MultiReads == 1     \* SpecMulti: reads the channel answers with data

(***************************************************************************)
(* Program constants.                                                      *)
(***************************************************************************)
cmd_RESULT_QUERY == 1
cmd_RESET == 160
cmd_SET_PERIOD == 161
cmd_RESULT_RETURN == 16
status == {0, 1, 16, 2, 224}
FrameStart == 2
ChecksumBase == 255
ReadSize == 8
DefaultPeriod == 10
PciToBq == 37
ByteMax == 255

Byte == 0..ByteMax

Min(a, b) == IF a < b THEN a ELSE b

Abs(n) == IF n < 0 THEN -n ELSE n

RECURSIVE SumSeq(_)
\* data_sum of the receive loop: the sum of the bytes of a sequence
SumSeq(s) == IF s = <<>> THEN 0 ELSE s[1] + SumSeq(Tail(s))

RECURSIVE BitLength(_)
\* int.bit_length() of a non-negative integer
BitLength(n) == IF n = 0 THEN 0 ELSE 1 + BitLength(n \div 2)

\* whether every element of a list may be stored in a bytearray
AllBytes(arr) == \A i \in 1..Len(arr) : arr[i] \in Byte

(***************************************************************************)
(* Values passed as the "data" argument of _send_cmd and the "period"      *)
(* argument of reset: None, an int, or an object of another type (v is 1   *)
(* for a truthy one such as "10" or 2.5, 0 for a falsy one such as "").    *)
(***************************************************************************)
NoneV == [t |-> "none", v |-> 0]
IntV(n) == [t |-> "int", v |-> n]
OtherV(b) == [t |-> "other", v |-> IF b THEN 1 ELSE 0]

\* Python truth value of an argument ("if data:", "if period:")
Truthy(d) == d.t # "none" /\ d.v # 0

(***************************************************************************)
(* _send_cmd, up to the write: the bytearray it builds, or how it ends     *)
(* without one ("False": returns False; "ValueError": bytearray refuses a  *)
(* value outside range(0, 256)).                                           *)
(***************************************************************************)
EncodeWithData(cmd, data) ==
    LET size == (BitLength(Abs(data)) + 7) \div 8
        checksum == ChecksumBase - (cmd + size + data)
        cmdarray == <<FrameStart, cmd, size, data, checksum>>
    IN  IF AllBytes(cmdarray)
        THEN [status |-> "frame", frame |-> cmdarray]
        ELSE [status |-> "ValueError", frame |-> <<>>]

EncodeNoData(cmd) ==
    LET size == 0
        checksum == ChecksumBase - (cmd + size)
        cmdarray == <<FrameStart, cmd, size, checksum>>
    IN  IF AllBytes(cmdarray)
        THEN [status |-> "frame", frame |-> cmdarray]
        ELSE [status |-> "ValueError", frame |-> <<>>]

EncodeCmd(cmd, data) ==
    IF Truthy(data)
    THEN IF data.t = "int"
         THEN EncodeWithData(cmd, data.v)
         ELSE [status |-> "False", frame |-> <<>>]
    ELSE EncodeNoData(cmd)

(***************************************************************************)
(* The receive loop's reading of a response (Python slices clip).          *)
(***************************************************************************)
RespCmd(response) == response[2]

RespSize(response) == response[3]

RespData(response) ==
    SubSeq(response, 4, Min(3 + RespSize(response), Len(response)))

RespChecksum(response) == response[Len(response)]

CalculatedChecksum(response) ==
    ChecksumBase - (RespCmd(response) + RespSize(response)
                    + SumSeq(RespData(response)))

FrameComplete(response) == Len(response) = ReadSize

\* a receiver that does not compare the checksum
ChecksumIgnored(response) == TRUE

ChecksumMatches(response) ==
    RespChecksum(response) = CalculatedChecksum(response)

IsResultReturn(response) == RespCmd(response) = cmd_RESULT_RETURN

PayloadOk(data) == Len(data) = 4

\* number of characters of str(n) for a byte n
NumDigits(n) == IF n < 10 THEN 1 ELSE IF n < 100 THEN 2 ELSE 3

Pow10(d) == IF d = 1 THEN 10 ELSE IF d = 2 THEN 100 ELSE 1000

(***************************************************************************)
(* float(str(integer) + "." + str(decimal)) * 37 as the exact fraction     *)
(* num/den (the rounding of the float is not modelled).                    *)
(***************************************************************************)
Radon(integer, decimal) ==
    LET den == Pow10(NumDigits(decimal))
    IN  [num |-> (integer * den + decimal) * PciToBq, den |-> den]

\* a decoder that takes the byte before the integer part for it
ProcessMeasurementDataShifted(data, cb) ==
    IF ~PayloadOk(data)
    THEN [kind |-> "bad_length", value |-> Radon(0, 0)]
    ELSE IF data[1] \notin status
    THEN [kind |-> "KeyError", value |-> Radon(data[2], data[4])]
    ELSE IF cb = "None"
    THEN [kind |-> "no_callback", value |-> Radon(data[2], data[4])]
    ELSE [kind |-> "sink", value |-> Radon(data[2], data[4])]

(***************************************************************************)
(* _process_measurement_data: "bad_length" (returns False), "KeyError"     *)
(* (self.status[status] for a status that is no key), "sink" (the callback *)
(* is called with value) or "no_callback" (self._callback is None).        *)
(***************************************************************************)
ProcessMeasurementData(data, cb) ==
    IF ~PayloadOk(data)
    THEN [kind |-> "bad_length", value |-> Radon(0, 0)]
    ELSE IF data[1] \notin status
    THEN [kind |-> "KeyError", value |-> Radon(data[3], data[4])]
    ELSE IF cb = "None"
    THEN [kind |-> "no_callback", value |-> Radon(data[3], data[4])]
    ELSE [kind |-> "sink", value |-> Radon(data[3], data[4])]

(***************************************************************************)
(* One iteration of the receive loop on the bytes a read returned:         *)
(* "short" (fewer than 8 bytes, ignored), "checksum_error" (warning),      *)
(* "KeyError" (the format string of the unknown-command warning, '{'}',    *)
(* names a keyword argument that is not given), or what                    *)
(* _process_measurement_data does.                                         *)
(***************************************************************************)
HandleResponse(response, cb) ==
    IF ~FrameComplete(response)
    THEN [kind |-> "short", value |-> Radon(0, 0)]
    ELSE IF ~ChecksumMatches(response)
    THEN [kind |-> "checksum_error", value |-> Radon(0, 0)]
    ELSE IF ~IsResultReturn(response)
    THEN [kind |-> "KeyError", value |-> Radon(0, 0)]
    ELSE ProcessMeasurementData(RespData(response), cb)

(***************************************************************************)
(* What the serial channel may hand to a read of 8 bytes.                  *)
(***************************************************************************)
\* RESULT_RETURN, status 0x00, 10 minutes, 2.5 pCi/L
FrameA == <<2, 16, 4, 0, 10, 2, 5, 218>>
\* RESULT_RETURN, status 0x02, 20 minutes, 1.3 pCi/L
FrameB == <<2, 16, 4, 2, 20, 1, 3, 209>>
\* RESULT_RETURN with a status that is no key of the status table (0x03)
FrameUnknownStatus == <<2, 16, 4, 3, 10, 2, 5, 215>>
\* RESULT_RETURN, status 0xE0, 30 minutes: command + size + payload is 281
FrameWrap == <<2, 16, 4, 224, 30, 2, 5, 230>>
\* FrameA with a wrong checksum byte
FrameBadChecksum == <<2, 16, 4, 0, 10, 2, 5, 0>>
\* a frame of another command (0x01) whose checksum matches
FrameOtherCmd == <<2, 1, 0, 0, 0, 0, 0, 254>>
\* RESULT_RETURN whose size byte is 2 and whose checksum matches
FrameBadSize == <<2, 16, 2, 0, 10, 0, 0, 227>>
\* the first 7 bytes of FrameA
Short7 == <<2, 16, 4, 0, 10, 2, 5>>

Chunks == {FrameA, FrameB, FrameUnknownStatus, FrameWrap, FrameBadChecksum,
           FrameOtherCmd, FrameBadSize, Short7}

\* what a read returns when the port is closed under it: the bytes so far
AbortChunks == {<<>>, Short7}

Callbacks == {"None", "sink"}

PeriodArgs == {NoneV, IntV(0), IntV(5), IntV(100), IntV(300), IntV(-1),
               OtherV(TRUE)}

\* the ids of the threads a behaviour may create
Threads == 1..(IF MaxThreads > MultiThreads THEN MaxThreads ELSE MultiThreads)

NoProbe == [kind |-> "none"]

(***************************************************************************)
(* The session after RD200M() (lines 41-61).  _running is first assigned   *)
(* by start_reception or close and is read only by a started thread.       *)
(***************************************************************************)
SessionInit ==
    /\ is_open = FALSE
    /\ running = FALSE
    /\ callback = "None"
    /\ period = IntV(DefaultPeriod)
    /\ receive_thread = 0
    /\ thr = [t \in Threads |->
                [pc |-> "unborn", response |-> <<>>, seq |-> 0,
                 prev |-> "none", from_open |-> FALSE]]
    /\ fg = [pc |-> "idle", op |-> "none", result |-> "none",
             blocked |-> FALSE]
    /\ written = <<>>
    /\ nread = 0
    /\ sinkLog = <<>>

Init == SessionInit /\ probe = NoProbe

Alive(t) == thr[t].pc \in {"loop", "call", "read", "got"}

\* self.__receive_thread and self.__receive_thread.isAlive()
TaskAlive == IF receive_thread = 0 THEN FALSE ELSE Alive(receive_thread)

\* the foreground after a call: fg.blocked is history, set by close() when the
\* thread it is about to stop is inside read
Returned(op, result) ==
    [pc |-> "idle", op |-> op, result |-> result,
     blocked |-> op = "close" /\ fg.blocked]

\* an open() that reports success whatever Serial.open() did
OpenUnchecked ==
    /\ fg.pc = "idle"
    /\ \E available \in BOOLEAN :
         is_open' = (is_open \/ available)
    /\ fg' = Returned("open", "True")
    /\ written' = <<>>
    /\ UNCHANGED <<running, callback, period, receive_thread, thr, nread,
                   sinkLog, probe>>

(***************************************************************************)
(* open(): Serial.open() raises SerialException when the port is already   *)
(* open or the device cannot be opened, and otherwise leaves it open.      *)
(***************************************************************************)
Open ==
    /\ fg.pc = "idle"
    /\ \E available \in BOOLEAN :
         IF ~is_open /\ available
         THEN /\ is_open' = TRUE
              /\ fg' = Returned("open", "True")
         ELSE /\ is_open' = is_open
              /\ fg' = Returned("open", "SerialException")
    /\ written' = <<>>
    /\ UNCHANGED <<running, callback, period, receive_thread, thr, nread,
                   sinkLog, probe>>

(***************************************************************************)
(* _send_cmd(cmd, data) in the current state: how it ends and the frame it *)
(* writes (a write to a port that is not open raises).                     *)
(***************************************************************************)
SendCmd(cmd, data) ==
    LET enc == EncodeCmd(cmd, data)
    IN  IF enc.status = "frame" /\ ~is_open
        THEN [status |-> "SerialException", frame |-> <<>>]
        ELSE enc

\* the "time" module is not imported by rd200m.py
TimeImported == FALSE

(***************************************************************************)
(* reset(period): stores a truthy period, sends SET_PERIOD, sleeps, sends  *)
(* RESET, sleeps.  An exception ends it where it is raised; time.sleep     *)
(* raises NameError in a module that does not import time.                 *)
(***************************************************************************)
ResetCall(p, timeImported) ==
    /\ fg.pc = "idle"
    /\ LET newPeriod == IF Truthy(p) THEN p ELSE period
           first == SendCmd(cmd_SET_PERIOD, newPeriod)
           second == SendCmd(cmd_RESET, NoneV)
           afterFirst == IF first.status = "frame"
                         THEN <<first.frame>> ELSE <<>>
       IN  /\ period' = newPeriod
           /\ IF first.status \in {"ValueError", "SerialException"}
              THEN /\ written' = <<>>
                   /\ fg' = Returned("reset", first.status)
              ELSE IF ~timeImported
              THEN /\ written' = afterFirst
                   /\ fg' = Returned("reset", "NameError")
              ELSE IF second.status = "frame"
              THEN /\ written' = Append(afterFirst, second.frame)
                   /\ fg' = Returned("reset", "None")
              ELSE /\ written' = afterFirst
                   /\ fg' = Returned("reset", second.status)
    /\ UNCHANGED <<is_open, running, callback, receive_thread, thr, nread,
                   sinkLog, probe>>

Reset == \E p \in PeriodArgs : ResetCall(p, TimeImported)

\* mqtt_radon.py, which holds a copy of the class, imports time
TimeImportedMqtt == TRUE

ResetMqtt == \E p \in PeriodArgs : ResetCall(p, TimeImportedMqtt)

\* a force_read() that passes the stored period as the operand
ForceReadWithPeriod ==
    /\ fg.pc = "idle"
    /\ LET sent == SendCmd(cmd_RESULT_QUERY, period)
       IN  IF sent.status = "frame"
           THEN /\ written' = <<sent.frame>>
                /\ fg' = Returned("force_read", "None")
           ELSE /\ written' = <<>>
                /\ fg' = Returned("force_read", sent.status)
    /\ UNCHANGED <<is_open, running, callback, period, receive_thread, thr,
                   nread, sinkLog, probe>>

(***************************************************************************)
(* force_read(): sends RESULT_QUERY without data.                          *)
(***************************************************************************)
ForceRead ==
    /\ fg.pc = "idle"
    /\ LET sent == SendCmd(cmd_RESULT_QUERY, NoneV)
       IN  IF sent.status = "frame"
           THEN /\ written' = <<sent.frame>>
                /\ fg' = Returned("force_read", "None")
           ELSE /\ written' = <<>>
                /\ fg' = Returned("force_read", sent.status)
    /\ UNCHANGED <<is_open, running, callback, period, receive_thread, thr,
                   nread, sinkLog, probe>>

(***************************************************************************)
(* start_reception(callback): registers the callback, sets the running     *)
(* flag, creates and starts a new thread and keeps only its handle.        *)
(* from_open is history, kept when track is set: whether the port was open *)
(* when t was started (it is cleared when t ends).                         *)
(***************************************************************************)
StartReceptionTracked(maxThreads, track) ==
    /\ fg.pc = "idle"
    /\ \E cb \in Callbacks, t \in 1..maxThreads :
         /\ thr[t].pc = "unborn"
         /\ \A u \in Threads : u < t => thr[u].pc # "unborn"
         /\ callback' = cb
         /\ running' = TRUE
         /\ thr' = [thr EXCEPT ![t].pc = "loop",
                               ![t].from_open = track /\ is_open]
         /\ receive_thread' = t
    /\ fg' = Returned("start_reception", "True")
    /\ written' = <<>>
    /\ UNCHANGED <<is_open, period, nread, sinkLog, probe>>

StartReceptionUpTo(maxThreads) == StartReceptionTracked(maxThreads, FALSE)

StartReception == StartReceptionUpTo(MaxThreads)

(***************************************************************************)
(* close(): clears the running flag, closes the port if it is open, joins  *)
(* the thread of the kept handle if it is alive, returns True.             *)
(***************************************************************************)
CloseClearRunning ==
    /\ fg.pc = "idle"
    /\ running' = FALSE
    /\ fg' = [fg EXCEPT !.pc = "close_port",
                        !.blocked = receive_thread # 0
                                    /\ thr[receive_thread].pc = "read"]
    /\ written' = <<>>
    /\ UNCHANGED <<is_open, callback, period, receive_thread, thr, nread,
                   sinkLog, probe>>

\* a close() that leaves the port as it is
ClosePortKept(open) == open

\* what close() does to the port between clearing the flag and the join
ClosePortEffect(open) == FALSE

ClosePort ==
    /\ fg.pc = "close_port"
    /\ is_open' = ClosePortEffect(is_open)
    /\ fg' = [fg EXCEPT !.pc = "close_join"]
    /\ UNCHANGED <<running, callback, period, receive_thread, thr, written,
                   nread, sinkLog, probe>>

\* a close() that returns without waiting for the thread
CloseNoJoin ==
    /\ fg.pc = "close_join"
    /\ fg' = Returned("close", "True")
    /\ UNCHANGED <<is_open, running, callback, period, receive_thread, thr,
                   written, nread, sinkLog, probe>>

CloseJoin ==
    /\ fg.pc = "close_join"
    /\ ~TaskAlive
    /\ fg' = Returned("close", "True")
    /\ UNCHANGED <<is_open, running, callback, period, receive_thread, thr,
                   written, nread, sinkLog, probe>>

(***************************************************************************)
(* __receive_thread_worker, one thread t.  Positions: "loop" (at the while *)
(* test), "call" (about to call read), "read" (blocked in read), "got"     *)
(* (read returned), "done" (loop left), "raised" (ended by an exception).  *)
(***************************************************************************)
ThreadLoop(t) ==
    /\ thr[t].pc = "loop"
    /\ thr' = [thr EXCEPT ![t].pc = IF running THEN "call" ELSE "done",
                       ![t].from_open = running /\ @]
    /\ UNCHANGED <<is_open, running, callback, period, receive_thread, fg,
                   written, nread, sinkLog, probe>>

\* Serial.read() on a port that is not open raises
ThreadCallRead(t) ==
    /\ thr[t].pc = "call"
    /\ thr' = [thr EXCEPT ![t].pc = IF is_open THEN "read" ELSE "raised",
                       ![t].from_open = is_open /\ @]
    /\ UNCHANGED <<is_open, running, callback, period, receive_thread, fg,
                   written, nread, sinkLog, probe>>

\* response = self.__serial.read(size=8): the local is replaced
ReadResult(old, chunk) == chunk

\* the channel answers the pending read of an open port
ThreadReadDataUpTo(t, maxReads) ==
    /\ thr[t].pc = "read"
    /\ is_open
    /\ nread < maxReads
    /\ \E chunk \in Chunks :
         thr' = [thr EXCEPT ![t].pc = "got",
                            ![t].response = ReadResult(@, chunk),
                            ![t].seq = nread + 1]
    /\ nread' = nread + 1
    /\ UNCHANGED <<is_open, running, callback, period, receive_thread, fg,
                   written, sinkLog, probe>>

ThreadReadData(t) == ThreadReadDataUpTo(t, MaxReads)

\* the port was closed under the pending read: it returns the bytes it has,
\* or raises
ThreadReadAbort(t) ==
    /\ thr[t].pc = "read"
    /\ ~is_open
    /\ \/ \E chunk \in AbortChunks :
            thr' = [thr EXCEPT ![t].pc = "got",
                               ![t].response = ReadResult(@, chunk),
                               ![t].seq = 0]
       \/ thr' = [thr EXCEPT ![t].pc = "raised", ![t].from_open = FALSE]
    /\ UNCHANGED <<is_open, running, callback, period, receive_thread, fg,
                   written, nread, sinkLog, probe>>

\* the body of the loop after the read (the locals are dead once the body
\* is left: the model clears them; prev is history, the way the thread's
\* last iteration ended)
ThreadProcess(t) ==
    /\ thr[t].pc = "got"
    /\ LET out == HandleResponse(thr[t].response, callback)
       IN  /\ thr' = [thr EXCEPT ![t].pc = IF out.kind = "KeyError"
                                           THEN "raised" ELSE "loop",
                                  ![t].response = <<>>,
                                  ![t].seq = 0,
                                  ![t].prev = out.kind,
                                  ![t].from_open = out.kind # "KeyError" /\ @]
           /\ sinkLog' = IF out.kind = "sink"
                         THEN Append(sinkLog,
                                     [seq |-> thr[t].seq,
                                      frame |-> thr[t].response,
                                      value |-> out.value])
                         ELSE sinkLog
    /\ UNCHANGED <<is_open, running, callback, period, receive_thread, fg,
                   written, nread, probe>>

ThreadStep(t) ==
    \/ ThreadLoop(t)
    \/ ThreadCallRead(t)
    \/ ThreadReadData(t)
    \/ ThreadReadAbort(t)
    \/ ThreadProcess(t)

(***************************************************************************)
(* A session whose reception is started once (as main() does).             *)
(***************************************************************************)
Next ==
    \/ Open
    \/ ForceRead
    \/ StartReception
    \/ CloseClearRunning
    \/ ClosePort
    \/ CloseJoin
    \/ \E t \in 1..MaxThreads : ThreadStep(t)

Spec == Init /\ [][Next]_vars

(***************************************************************************)
(* The same session, with the history of how each thread was started.      *)
(***************************************************************************)
NextStart ==
    \/ Open
    \/ ForceRead
    \/ StartReceptionTracked(MaxThreads, TRUE)
    \/ CloseClearRunning
    \/ ClosePort
    \/ CloseJoin
    \/ \E t \in 1..MaxThreads : ThreadStep(t)

SpecStart == Init /\ [][NextStart]_vars

(***************************************************************************)
(* A session on which start_reception may be called again.                 *)
(***************************************************************************)
NextMulti ==
    \/ Open
    \/ ForceRead
    \/ StartReceptionUpTo(MultiThreads)
    \/ CloseClearRunning
    \/ ClosePort
    \/ CloseJoin
    \/ \E t \in 1..MultiThreads :
         \/ ThreadLoop(t)
         \/ ThreadCallRead(t)
         \/ ThreadReadDataUpTo(t, MultiReads)
         \/ ThreadReadAbort(t)
         \/ ThreadProcess(t)

SpecMulti == Init /\ [][NextMulti]_vars

(***************************************************************************)
(* The session while the channel stays silent: every operation, and the    *)
(* threads without an answered read.                                       *)
(***************************************************************************)
NextCmd ==
    \/ Open
    \/ Reset
    \/ ForceRead
    \/ StartReceptionUpTo(MultiThreads)
    \/ CloseClearRunning
    \/ ClosePort
    \/ CloseJoin
    \/ \E t \in 1..MultiThreads :
         \/ ThreadLoop(t)
         \/ ThreadCallRead(t)
         \/ ThreadReadAbort(t)
         \/ ThreadProcess(t)

SpecCmd == Init /\ [][NextCmd]_vars

(***************************************************************************)
(* The same session of the copy of the class in mqtt_radon.py.             *)
(***************************************************************************)
NextCmdMqtt ==
    \/ Open
    \/ ResetMqtt
    \/ ForceRead
    \/ StartReceptionUpTo(MultiThreads)
    \/ CloseClearRunning
    \/ ClosePort
    \/ CloseJoin
    \/ \E t \in 1..MultiThreads :
         \/ ThreadLoop(t)
         \/ ThreadCallRead(t)
         \/ ThreadReadAbort(t)
         \/ ThreadProcess(t)

SpecCmdMqtt == Init /\ [][NextCmdMqtt]_vars

(***************************************************************************)
(* Scheduling: a foreground inside close() goes on, and a thread that can  *)
(* take a step takes it; a read pending on a port that has been closed     *)
(* ends (ThreadReadAbort).  Nothing obliges the channel to answer a read   *)
(* of an open port, nor the caller to make another call.                   *)
(***************************************************************************)
Fairness ==
    /\ WF_vars(ClosePort)
    /\ WF_vars(CloseJoin)
    /\ \A t \in 1..MaxThreads :
         /\ WF_vars(ThreadLoop(t))
         /\ WF_vars(ThreadCallRead(t))
         /\ WF_vars(ThreadReadAbort(t))
         /\ WF_vars(ThreadProcess(t))

\* Next within the bound LiveReads
NextLive ==
    \/ Open
    \/ ForceRead
    \/ StartReception
    \/ CloseClearRunning
    \/ ClosePort
    \/ CloseJoin
    \/ \E t \in 1..MaxThreads :
         \/ ThreadLoop(t)
         \/ ThreadCallRead(t)
         \/ ThreadReadDataUpTo(t, LiveReads)
         \/ ThreadReadAbort(t)
         \/ ThreadProcess(t)

FairSpec == Init /\ [][NextLive]_vars /\ Fairness

(***************************************************************************)
(* C1: once close() has been called on a session whose reception thread is *)
(* alive, the thread eventually ends and close() returns True with the     *)
(* thread no longer alive; this includes a thread that was blocked inside  *)
(* the read of 8 bytes when close() was called.                            *)
(***************************************************************************)
C1_CloseJoinsTask ==
    (fg.pc = "close_port" /\ TaskAlive)
        ~> (fg.pc = "idle" /\ fg.op = "close" /\ fg.result = "True"
            /\ ~TaskAlive)

\* close() has returned, and the thread it joined was inside read when
\* close() was called
C1_Witness ==
    /\ fg.pc = "idle"
    /\ fg.op = "close"
    /\ fg.blocked
    /\ receive_thread # 0
    /\ ~TaskAlive

(***************************************************************************)
(* The protocol's terms, as the claims use them.                           *)
(***************************************************************************)
\* the payload bytes a frame's size byte announces, before its checksum
FramePayload(f) == SubSeq(f, 4, Min(3 + f[3], Len(f) - 1))

\* 0xFF - (command + size + sum of payload) mod 256
ProtocolChecksum(f) ==
    ChecksumBase - ((f[2] + f[3] + SumSeq(FramePayload(f))) % (ByteMax + 1))

ProtocolChecksumOk(f) == f[Len(f)] = ProtocolChecksum(f)

\* a complete RESULT_RETURN frame with a 4-byte payload and its checksum
ValidResultReturn(f) ==
    /\ Len(f) = ReadSize
    /\ f[1] = FrameStart
    /\ f[2] = cmd_RESULT_RETURN
    /\ f[3] = 4
    /\ ProtocolChecksumOk(f)

\* thread t ends the iteration on the bytes it has read
Processes(t) == thr[t].pc = "got" /\ thr'[t].pc # "got"

\* this step invokes the sink once, for the frame thread t has read
DeliversFrame(t) ==
    /\ Len(sinkLog') = Len(sinkLog) + 1
    /\ SubSeq(sinkLog', 1, Len(sinkLog)) = sinkLog
    /\ sinkLog'[Len(sinkLog')].frame = thr[t].response
    /\ sinkLog'[Len(sinkLog')].seq = thr[t].seq

(***************************************************************************)
(* C2: the sink is invoked for a frame only if the read returned exactly 8 *)
(* bytes, the last byte is the checksum of command, size and payload, the  *)
(* command is RESULT_RETURN and the payload has exactly 4 bytes.           *)
(***************************************************************************)
C2_SinkOnlyForValidFrames ==
    \A i \in 1..Len(sinkLog) :
        LET f == sinkLog[i].frame
        IN  /\ Len(f) = 8
            /\ f[8] = (255 - (f[2] + f[3] + f[4] + f[5] + f[6] + f[7])) % 256
            /\ f[2] = 16
            /\ f[3] = 4

\* the sink has been invoked for a frame read from the channel
C2_Witness == Len(sinkLog) >= 1 /\ sinkLog[1].frame = FrameA

(***************************************************************************)
(* C3: every valid RESULT_RETURN frame the loop reads (a sink being        *)
(* registered) yields exactly one sink invocation, and the invocations     *)
(* are in the order in which the frames were read.                         *)
(***************************************************************************)
C3_ValidFramesDeliveredInOrder ==
    /\ [][\A t \in Threads :
            (Processes(t) /\ ValidResultReturn(thr[t].response)
             /\ callback # "None") => DeliversFrame(t)]_vars
    /\ [](\A i, j \in 1..Len(sinkLog) :
            i < j => sinkLog[i].seq < sinkLog[j].seq)

(***************************************************************************)
(* C4: a frame whose checksum is right and whose command is not            *)
(* RESULT_RETURN is dropped: no sink invocation, and the thread goes on    *)
(* with the loop (so that it can deliver a later frame).                   *)
(***************************************************************************)
C4_UnknownCommandDropped ==
    [][\A t \in Threads :
         (Processes(t) /\ Len(thr[t].response) = ReadSize
          /\ ProtocolChecksumOk(thr[t].response)
          /\ thr[t].response[2] # cmd_RESULT_RETURN)
         => (sinkLog' = sinkLog /\ thr'[t].pc = "loop")]_vars

(***************************************************************************)
(* C5: a valid RESULT_RETURN frame whose status byte is none of 0x00,      *)
(* 0x01, 0x02, 0x10, 0xE0 is decoded all the same: the sink is invoked     *)
(* with the value of its integer and decimal bytes, nothing is raised and  *)
(* the thread goes on with the loop.                                       *)
(***************************************************************************)
C5_UnknownStatusDecoded ==
    [][\A t \in Threads :
         (Processes(t) /\ ValidResultReturn(thr[t].response)
          /\ thr[t].response[4] \notin {0, 1, 2, 16, 224}
          /\ callback # "None")
         => /\ DeliversFrame(t)
            /\ sinkLog'[Len(sinkLog')].value
                   = Radon(thr[t].response[6], thr[t].response[7])
            /\ thr'[t].pc = "loop"]_vars

(***************************************************************************)
(* C6: a read of fewer than 8 bytes is dropped without a sink invocation   *)
(* and without ending the loop, and the valid frame the thread reads next  *)
(* is delivered to the sink.                                               *)
(***************************************************************************)
C6_ShortReadDropped ==
    /\ [][\A t \in Threads :
            (Processes(t) /\ Len(thr[t].response) < ReadSize)
            => (sinkLog' = sinkLog /\ thr'[t].pc = "loop")]_vars
    /\ [][\A t \in Threads :
            (Processes(t) /\ thr[t].prev = "short"
             /\ ValidResultReturn(thr[t].response) /\ callback # "None")
            => DeliversFrame(t)]_vars

(***************************************************************************)
(* C7: a frame rejected for its checksum, and a RESULT_RETURN frame with a *)
(* right checksum whose payload is not 4 bytes long, do not end the loop:  *)
(* the thread stays alive and the valid frame it reads next is delivered.  *)
(***************************************************************************)
C7_RejectedFrameKeepsLoop ==
    /\ [][\A t \in Threads :
            (Processes(t) /\ Len(thr[t].response) = ReadSize
             /\ (\/ ~ProtocolChecksumOk(thr[t].response)
                 \/ /\ thr[t].response[2] = cmd_RESULT_RETURN
                    /\ thr[t].response[3] # 4))
            => (sinkLog' = sinkLog /\ thr'[t].pc = "loop")]_vars
    /\ [][\A t \in Threads :
            (Processes(t) /\ thr[t].prev \in {"checksum_error", "bad_length"}
             /\ ValidResultReturn(thr[t].response) /\ callback # "None")
            => DeliversFrame(t)]_vars

(***************************************************************************)
(* The encoder as a function: _send_cmd's bytearray for every command byte *)
(* and every operand of one byte (or none), and what the receive loop's    *)
(* checksum test makes of the frame.                                       *)
(***************************************************************************)
SessionVars == <<is_open, running, callback, period, receive_thread, thr, fg,
                 written, nread, sinkLog>>

EncodeArgs == {NoneV} \cup {IntV(n) : n \in Byte}

InitEncode ==
    /\ SessionInit
    /\ probe \in {[kind |-> "encode", cmd |-> c, data |-> d,
                   out |-> [status |-> "pending", frame |-> <<>>],
                   accepted |-> "pending"] : c \in Byte, d \in EncodeArgs}

Encode ==
    /\ probe.out.status = "pending"
    /\ probe' = [probe EXCEPT !.out = EncodeCmd(probe.cmd, probe.data)]
    /\ UNCHANGED SessionVars

ValidateEncoded ==
    /\ probe.out.status = "frame"
    /\ probe.accepted = "pending"
    /\ probe' = [probe EXCEPT !.accepted =
                    IF ChecksumMatches(probe.out.frame) THEN "yes" ELSE "no"]
    /\ UNCHANGED SessionVars

NextEncode == Encode \/ ValidateEncoded

SpecEncode == InitEncode /\ [][NextEncode]_vars

(***************************************************************************)
(* C8: for a command without operand the checksum byte written is          *)
(* (0xFF - command) mod 256, for a command with an operand op in 1..255 it *)
(* is (0xFF - (command + 1 + op)) mod 256, and a frame is produced for     *)
(* every such command and operand.                                         *)
(***************************************************************************)
C8_ChecksumByteWraps ==
    probe.out.status # "pending" =>
        /\ probe.out.status = "frame"
        /\ probe.data.t = "none" =>
             probe.out.frame[Len(probe.out.frame)] = (255 - probe.cmd) % 256
        /\ (probe.data.t = "int" /\ probe.data.v \in 1..255) =>
             probe.out.frame[Len(probe.out.frame)]
                 = (255 - (probe.cmd + 1 + probe.data.v)) % 256

(***************************************************************************)
(* C9: for every command byte and every operand (none, or 0..255) the      *)
(* encoder produces a frame, and the receiver's checksum test accepts it.  *)
(***************************************************************************)
C9_EncodedFrameValidates ==
    probe.out.status # "pending" =>
        /\ probe.out.status = "frame"
        /\ probe.accepted # "no"

(***************************************************************************)
(* The receiver's validation as a function: a valid frame with one byte    *)
(* set to another value.                                                   *)
(***************************************************************************)
ValidFrames == {FrameA, FrameB, FrameUnknownStatus}

InitValidate ==
    /\ SessionInit
    /\ probe \in {[kind |-> "validate", frame |-> f, idx |-> i, val |-> v,
                   out |-> "pending"] :
                  f \in ValidFrames, i \in 1..ReadSize, v \in Byte}

Corrupted == [probe.frame EXCEPT ![probe.idx] = probe.val]

ValidateCorrupted ==
    /\ probe.out = "pending"
    /\ probe' = [probe EXCEPT !.out = HandleResponse(Corrupted, "sink").kind]
    /\ UNCHANGED SessionVars

SpecValidate == InitValidate /\ [][ValidateCorrupted]_vars

(***************************************************************************)
(* C10: a valid frame with any one byte changed (start marker, command,    *)
(* size, payload or checksum byte) is rejected by the receiver, unless the *)
(* change of a byte that enters the checksum equation leaves the equation  *)
(* satisfied.                                                              *)
(***************************************************************************)
C10_CorruptionRejected ==
    (probe.out # "pending" /\ probe.val # probe.frame[probe.idx]) =>
        \/ probe.out = "checksum_error"
        \/ probe.idx >= 2 /\ ProtocolChecksumOk(Corrupted)

(***************************************************************************)
(* The decoder as a function: _process_measurement_data on a payload of 4  *)
(* bytes [status, minutes, integer, decimal] with a sink registered.       *)
(***************************************************************************)
DecodeStatuses == {0, 224, 3}

DecodeMinutes == {0, 5, 255}

DecodeDecimals == (0..19) \cup {100, 255}

InitDecode ==
    /\ SessionInit
    /\ probe \in {[kind |-> "decode", data |-> <<s, m, i, d>>,
                   out |-> [kind |-> "pending", value |-> Radon(0, 0)]] :
                  s \in DecodeStatuses, m \in DecodeMinutes,
                  i \in Byte, d \in DecodeDecimals}

Decode ==
    /\ probe.out.kind = "pending"
    /\ probe' = [probe EXCEPT !.out = ProcessMeasurementData(probe.data, "sink")]
    /\ UNCHANGED SessionVars

SpecDecode == InitDecode /\ [][Decode]_vars

(***************************************************************************)
(* C11: when the sink is invoked for a payload [status, minutes, integer,  *)
(* decimal] with decimal in 0..9, ten times the value passed is            *)
(* (10 x integer + decimal) x 37, whatever status and minutes are; for     *)
(* integer 2 and decimal 5 the value is 92.5.                              *)
(***************************************************************************)
C11_RadonValue ==
    (probe.out.kind = "sink" /\ probe.data[4] \in 0..9) =>
        /\ 10 * probe.out.value.num
               = (10 * probe.data[3] + probe.data[4]) * 37 * probe.out.value.den
        /\ (probe.data[3] = 2 /\ probe.data[4] = 5) =>
               2 * probe.out.value.num = 185 * probe.out.value.den

\* the sink has been invoked for integer 2, decimal 5, minutes 255
C11_Witness ==
    /\ probe.out.kind = "sink"
    /\ probe.data = <<224, 255, 2, 5>>
    /\ probe.out.value = [num |-> 925, den |-> 10]

(***************************************************************************)
(* The frames of the protocol, as the claims name them.                    *)
(***************************************************************************)
\* SET_PERIOD carrying the period n
SetPeriodFrame(n) == <<2, 161, 1, n, (255 - (161 + 1 + n)) % 256>>

\* RESET without operand
ResetFrame == <<2, 160, 0, 95>>

\* the period a call reset(p) is to send: p if one is given, else the stored
PeriodOf(p) == IF p = NoneV THEN period ELSE p

(***************************************************************************)
(* C12: reset(period) on an open session, the period being a byte, writes  *)
(* exactly two frames: SET_PERIOD carrying the period (the one passed if   *)
(* one was given, else the stored one), then RESET without operand.        *)
(***************************************************************************)
C12_ResetWritesSetPeriodThenReset ==
    [][\A p \in PeriodArgs :
         (ResetCall(p, TimeImported) /\ is_open
          /\ PeriodOf(p).t = "int" /\ PeriodOf(p).v \in 0..255)
         => written' = <<SetPeriodFrame(PeriodOf(p).v), ResetFrame>>]_vars

\* an operand that is no integer of one non-negative byte
BadOperand(d) == d.t = "other" \/ (d.t = "int" /\ d.v \notin 0..255)

\* the ways a call reports a refused operand: _send_cmd's False, or the
\* ValueError or TypeError of the conversion to bytes
OperandErrors == {"False", "ValueError", "TypeError"}

(***************************************************************************)
(* C13: reset(period) with a period that is no integer of one non-negative *)
(* byte (another type, negative, above 255) writes no byte of SET_PERIOD   *)
(* and its caller receives the error of the operand.                       *)
(***************************************************************************)
C13_BadOperandSurfaced ==
    [][\A p \in PeriodArgs :
         (ResetCall(p, TimeImported) /\ BadOperand(p))
         => /\ \A i \in 1..Len(written') : written'[i][2] # 161
            /\ fg'.result \in OperandErrors]_vars

\* a step of open() on a session whose port is not open and stays so
OpenFails == Open /\ ~is_open /\ ~is_open'

(***************************************************************************)
(* C14: an open() that does not get the port open reports it to the caller *)
(* (an exception or False), starts no thread and leaves the session as it  *)
(* was; whenever open() has reported success the port is open.             *)
(***************************************************************************)
C14_OpenFailureReported ==
    /\ [][OpenFails =>
            /\ fg'.result \in {"SerialException", "False"}
            /\ UNCHANGED <<running, callback, period, receive_thread, thr>>]_vars
    /\ []((fg.pc = "idle" /\ fg.op = "open" /\ fg.result = "True") => is_open)

\* open() has failed on a closed session that has no thread
C14_Witness ==
    /\ fg.pc = "idle"
    /\ fg.op = "open"
    /\ fg.result = "SerialException"
    /\ ~is_open
    /\ receive_thread = 0

\* a step that releases the port
PortReleased == is_open /\ ~is_open'

\* the step by which close() returns
CloseReturns == fg.pc = "close_join" /\ fg'.pc = "idle"

(***************************************************************************)
(* C15, as claimed: during close() the port is released only after the     *)
(* thread has seen the stop signal and has been joined, so that the thread *)
(* is never alive, about to read, while the port is already closed.        *)
(***************************************************************************)
C15_PortReleasedAfterJoin ==
    [][PortReleased => ~TaskAlive']_vars

(***************************************************************************)
(* C15, amended: close() clears the running flag first, then releases the  *)
(* port (the thread may still be alive: releasing the port is what ends a  *)
(* read in progress), and returns only when the port is released and the   *)
(* thread has ended.                                                       *)
(***************************************************************************)
C15_PortReleasedBeforeJoin ==
    /\ [][PortReleased => (fg.pc = "close_port" /\ ~running)]_vars
    /\ [][CloseReturns => (~is_open' /\ ~TaskAlive')]_vars

\* inside close(): the port is released and the thread, not yet joined, is
\* about to call read
C15_Witness ==
    /\ fg.pc = "close_join"
    /\ ~is_open
    /\ TaskAlive
    /\ thr[receive_thread].pc = "call"

\* the threads of the session that are alive
AliveThreads == {t \in Threads : Alive(t)}

(***************************************************************************)
(* C16: at most one reception thread of the session is alive in every      *)
(* reachable state, start_reception being called twice without a close in  *)
(* between included, and when close() has returned none is alive.          *)
(***************************************************************************)
C16_AtMostOneTask ==
    /\ Cardinality(AliveThreads) <= 1
    /\ (fg.pc = "idle" /\ fg.op = "close") => AliveThreads = {}

(***************************************************************************)
(* C17: the receiver's checksum test wraps modulo 256: a frame of 8 bytes  *)
(* whose last byte is (0xFF - (command + size + payload sum)) mod 256 is   *)
(* not rejected for its checksum, also when the sum exceeds 255.           *)
(***************************************************************************)
C17_ReceiverChecksumWraps ==
    [][\A t \in Threads :
         (Processes(t) /\ Len(thr[t].response) = 8
          /\ thr[t].response[8]
                 = (255 - (thr[t].response[2] + thr[t].response[3]
                           + SumSeq(FramePayload(thr[t].response)))) % 256)
         => thr'[t].prev # "checksum_error"]_vars

(***************************************************************************)
(* C18: a reset() in which a send fails (SET_PERIOD or RESET is not        *)
(* written) leaves the session as it was: port, running flag, registered   *)
(* sink, thread and stored period are unchanged.                           *)
(***************************************************************************)
C18_FailedResetKeepsSession ==
    [][(Reset /\ Len(written') < 2)
       => UNCHANGED <<is_open, running, callback, receive_thread, thr,
                      period>>]_vars

(***************************************************************************)
(* C19: whenever an operand is supplied to the encoder, operand 0          *)
(* included, the frame has the 5 bytes [0x02, command, size, operand,      *)
(* checksum] and its size byte is the number of operand bytes, 1; the      *)
(* frame of 4 bytes [0x02, command, 0x00, checksum] is produced only when  *)
(* no operand is supplied.                                                 *)
(***************************************************************************)
C19_OperandFrameShape ==
    probe.out.status = "frame" =>
        /\ probe.data.t = "int" =>
             /\ Len(probe.out.frame) = 5
             /\ SubSeq(probe.out.frame, 1, 4)
                    = <<2, probe.cmd, 1, probe.data.v>>
        /\ Len(probe.out.frame) = 4 =>
             /\ probe.data.t = "none"
             /\ SubSeq(probe.out.frame, 1, 3) = <<2, probe.cmd, 0>>

(***************************************************************************)
(* C20: reception is entered only from an open session: a thread that      *)
(* start_reception() started while the port was not open (never opened,    *)
(* or closed again) is never running and reading from the port.            *)
(***************************************************************************)
C20_ReceivingOnlyFromOpen ==
    \A t \in Threads :
        (running /\ thr[t].pc = "read" /\ is_open) => thr[t].from_open

\* RESULT_QUERY without operand
ResultQueryFrame == <<2, 1, 0, 254>>

(***************************************************************************)
(* C21: force_read() on an open session writes exactly one frame,          *)
(* [0x02, 0x01, 0x00, 0xFE], and returns: it waits for no response (the    *)
(* threads and the channel are where they were), does not invoke the sink, *)
(* and leaves running flag, registered sink, stored period and port as     *)
(* they were.                                                              *)
(***************************************************************************)
C21_ForceReadWritesQuery ==
    [][(ForceRead /\ is_open)
       => /\ written' = <<ResultQueryFrame>>
          /\ fg'.pc = "idle"
          /\ fg'.result = "None"
          /\ UNCHANGED <<thr, nread, sinkLog>>
          /\ UNCHANGED <<running, callback, period, is_open>>]_vars

\* force_read() has returned on an open session whose thread is blocked in
\* read: the query is written and no sink invocation has happened
C21_Witness ==
    /\ fg.pc = "idle"
    /\ fg.op = "force_read"
    /\ fg.result = "None"
    /\ is_open
    /\ written = <<ResultQueryFrame>>
    /\ running
    /\ TaskAlive
    /\ thr[receive_thread].pc = "read"
    /\ sinkLog = <<>>

(***************************************************************************)
(* C22: once close() has returned (and until reception is started again)   *)
(* the sink is not invoked any more, whatever the channel delivers: the    *)
(* invocation for a frame read while close() was running happens before    *)
(* close() returns.                                                        *)
(***************************************************************************)
C22_NoSinkAfterClose ==
    [][(fg.pc = "idle" /\ fg.op = "close" /\ fg.result = "True")
       => sinkLog' = sinkLog]_vars

\* a step of close()
CloseStep == CloseClearRunning \/ ClosePort \/ CloseJoin

\* inside close(), fg.op is still the call before it: this close() was
\* called on a session without reception, or right after another close()
CloseOfIdleSession == receive_thread = 0 \/ fg.op = "close"

(***************************************************************************)
(* C23: close() called on a session that was never opened, that is open    *)
(* without a started reception, or that is closed already, returns True    *)
(* without waiting or raising and leaves the port closed and no thread     *)
(* alive; a close() that follows a close() changes nothing of the session. *)
(***************************************************************************)
C23_CloseIdempotent ==
    /\ []((fg.pc = "close_join" /\ CloseOfIdleSession) => ~TaskAlive)
    /\ [][(CloseReturns /\ CloseOfIdleSession)
          => /\ fg'.result = "True"
             /\ ~is_open'
             /\ AliveThreads' = {}]_vars
    /\ [][(CloseStep /\ fg.op = "close")
          => UNCHANGED <<is_open, running, callback, period, receive_thread,
                         thr>>]_vars

====
